---- MODULE Spec2Model ----
(***************************************************************************)
(* Model of Ami3Pipeline.process (jwst/pipeline/calwebb_ami3.py): the      *)
(* level-3 AMI pipeline controller.  One run of process() is a sequential  *)
(* program; pc is its position, and every call it makes to a collaborator  *)
(* (association loader, the three steps, blendmodels, save_model,          *)
(* datamodels.open, close) is recorded in the trace `calls`.               *)
(***************************************************************************)
EXTENDS Integers, Sequences, FiniteSets, TLC

VARIABLES
    asn,            \* the association handed to process(): what load() returns
    save_averages,  \* the pipeline option of the same name
    output_file,    \* self.output_file
    pc,             \* position in process()
    i,              \* index of the loop over prod['members'] (1-based)
    psf_files,      \* local psf_files
    targ_files,     \* local targ_files
    models,         \* every data model created in the run, by reference number
    result,         \* local result: a reference into models
    psf_avg,        \* local psf_avg: None or a reference into models
    targ_avg,       \* local targ_avg: Unbound or a reference into models
    calls,          \* trace of the calls made to collaborators
    logs,           \* trace of the messages logged
    err             \* the exception that left process(), if any

vars == <<asn, save_averages, output_file, pc, i, psf_files, targ_files,
          models, result, psf_avg, targ_avg, calls, logs, err>>

----------------------------------------------------------------------------
(* Bounds of the model *)

MaxMembers == 3

----------------------------------------------------------------------------
(* Strings whose letters matter are sequences of one-letter strings. *)

PSF == <<"P", "S", "F">>
SCIENCE == <<"S", "C", "I", "E", "N", "C", "E">>

LowerLetters == <<"a", "b", "c", "d", "e", "f", "g", "h", "i", "j", "k", "l", "m",
                  "n", "o", "p", "q", "r", "s", "t", "u", "v", "w", "x", "y", "z">>
UpperLetters == <<"A", "B", "C", "D", "E", "F", "G", "H", "I", "J", "K", "L", "M",
                  "N", "O", "P", "Q", "R", "S", "T", "U", "V", "W", "X", "Y", "Z">>

\* The upper-case letter of each lower-case letter
UpperOf ==
    [c \in {LowerLetters[k] : k \in 1..Len(LowerLetters)} |->
        UpperLetters[CHOOSE k \in 1..Len(LowerLetters) : LowerLetters[k] = c]]

\* str.upper() on one character: a lower-case letter becomes its upper-case
\* letter, every other character is kept.
UpperChar(c) == IF c \in DOMAIN UpperOf THEN UpperOf[c] ELSE c

\* str.upper()
upper(s) == [k \in 1..Len(s) |-> UpperChar(s[k])]

\* m['exptype'].upper() == 'PSF'
IsPsf(m) == upper(m.exptype) = PSF

\* m['exptype'].upper() == 'SCIENCE'
IsScience(m) == upper(m.exptype) = SCIENCE

----------------------------------------------------------------------------
(* The inputs of a run *)

\* exptype values an association may carry
Exptypes == { <<"S", "c", "i", "e", "n", "c", "e">>,
              <<"P", "s", "f">>,
              <<"b", "k", "g">> }

Expnames == {"e1", "e2"}

Members == [exptype : Exptypes, expname : Expnames]

RECURSIVE SeqsUpTo(_, _)
SeqsUpTo(S, n) ==
    IF n = 0 THEN {<<>>}
    ELSE LET shorter == SeqsUpTo(S, n - 1)
         IN  shorter \cup {Append(q, x) : q \in {r \in shorter : Len(r) = n - 1}, x \in S}

NoName == "<absent>"
DefaultOutputFile == "<configured>"

\* A product: its member list and its optional 'name'
Products == [members : SeqsUpTo(Members, MaxMembers), name : {NoName, "e1"}]

\* A product after the first, which process() never reads; the smaller
\* associations carry one.
SpareProduct == [members |-> <<>>, name |-> NoName]

ProductLists ==
    {<<>>} \cup {<<p>> : p \in Products}
           \cup {<<p, SpareProduct>> : p \in {q \in Products : Len(q.members) < MaxMembers - 1}}

Associations ==
    [asn_id : {"a1"}, asn_pool : {"pool1"}, filename : {"table1"}, products : ProductLists]

----------------------------------------------------------------------------
(* Data models and references to them *)

None == 0
Unbound == -1

NotSet == "<not set>"

\* What a step returns: a new data model whose meta.asn fields are whatever the
\* step left there, which process() does not control.
StepOutputs(kind) ==
    { [kind |-> kind, pool_name |-> p[1], table_name |-> p[2], blended |-> FALSE,
        closed |-> FALSE] :
        p \in {<<NotSet, NotSet>>, <<asn.asn_pool, asn.filename>>} }

\* Mutant of Stamp: the table name forgotten
Stamp_PoolOnly(m) == [m EXCEPT !.pool_name = asn.asn_pool]

\* Mutant of Stamp: the table name written where the pool name belongs
Stamp_Swapped(m) == [m EXCEPT !.pool_name = asn.filename, !.table_name = asn.filename]

\* result.meta.asn.pool_name = asn['asn_pool']; result.meta.asn.table_name = asn.filename
Stamp(m) == [m EXCEPT !.pool_name = asn.asn_pool, !.table_name = asn.filename]

\* save_model's return value: the name of the file written
OutputPath(base, suffix) == <<base, suffix>>

prod == asn.products[1]

Call(op, args, ok) == [op |-> op, args |-> args, ok |-> ok]

\* Mutant of Raise: the exception caught and the run ended as if complete
Raise_Swallowed(call, exc) ==
    /\ pc' = "done"
    /\ err' = err
    /\ calls' = Append(calls, call)

\* An exception raised by a call is caught nowhere in process(): it leaves
\* process(), and nothing after the call runs.
Raise(call, exc) ==
    /\ pc' = "failed"
    /\ err' = exc
    /\ calls' = Append(calls, call)

\* A call that returns
Return(call, next) ==
    /\ pc' = next
    /\ err' = err
    /\ calls' = Append(calls, call)

\* lines 56-60: the expnames of the PSF members
PsfMembers(ms) ==
    LET sel == SelectSeq(ms, IsPsf) IN [k \in 1..Len(sel) |-> sel[k].expname]

\* Mutant of TargMembers: the comprehension without its filter
TargMembers_Unfiltered(ms) == [k \in 1..Len(ms) |-> ms[k].expname]

\* lines 61-65: the expnames of the science target members
TargMembers(ms) ==
    LET sel == SelectSeq(ms, IsScience) IN [k \in 1..Len(sel) |-> sel[k].expname]

\* self.save_model(model, output_file=base, suffix=suffix, acid=acid): the
\* arguments, and the meta.asn fields the model has when it is written
SaveArgs(ref, ms, base, suffix, acid) ==
    [model |-> ref, base |-> base, suffix |-> suffix, acid |-> acid,
     pool_name |-> ms[ref].pool_name, table_name |-> ms[ref].table_name]

\* Mutant of NoTargets: the check for science members dropped
NoTargets_Never(tf) == FALSE

\* line 68: len(targ_files) == 0
NoTargets(tf) == Len(tf) = 0

\* Mutant of NoPsfs: off by one
NoPsfs_AtMostOne(pf) == Len(pf) <= 1

\* line 74: len(psf_files) == 0
NoPsfs(pf) == Len(pf) = 0

\* Mutant of AppendFile: the new file name put first
AppendFile_Prepend(files, out) == <<out>> \o files

\* lines 98 and 100: files.append(output_file)
AppendFile(files, out) == Append(files, out)

\* Mutant of HavePsfFiles: off by one
HavePsfFiles_MoreThanOne(pf) == Len(pf) > 1

\* line 104: len(psf_files) > 0
HavePsfFiles(pf) == Len(pf) > 0

\* line 109: if self.save_averages
SavePsfAvg == save_averages

\* line 139: len(targ_files) > 0
HaveTargFiles(tf) == Len(tf) > 0

\* Mutant of SaveTargAvg: the target average saved only next to a PSF average
SaveTargAvg_OnlyWithPsf == save_averages /\ psf_avg # None

\* line 144: if self.save_averages
SaveTargAvg == save_averages

\* Mutant of DoNormalize: normalization tied to the saving of the averages
DoNormalize_OnlyIfSaved(pa) == pa # None /\ save_averages

\* Mutant of DoNormalize: the guard dropped
DoNormalize_Always(pa) == TRUE

\* line 166: psf_avg is not None
DoNormalize(pa) == pa # None

\* Mutant of Follows: the target results averaged before the PSF results
Follows_TargetFirst(phase) ==
    CASE phase = "loop" -> "avg_targ"
      [] phase = "targ" -> "avg_psf"
      [] phase = "psf" -> "normalize"

\* The order of the blocks after the loop: lines 102-136 (PSF average), then
\* lines 138-161 (target average), then lines 163-185 (normalization)
Follows(phase) ==
    CASE phase = "loop" -> "avg_psf"
      [] phase = "psf" -> "avg_targ"
      [] phase = "targ" -> "normalize"

\* Mutant of NormalizeArgs: the two averages in the other order
NormalizeArgs_Swapped(ta, pa) == <<pa, ta>>

\* line 168: self.ami_normalize(targ_avg, psf_avg)
NormalizeArgs(ta, pa) == <<ta, pa>>

\* line 178: input_list = [targ_avg, psf_avg]
InputList(ta, pa) == <<ta, pa>>

\* lines 69-70
AbortMessages == <<"No science target members found in association table",
                   "Calwebb_ami3 processing will be aborted">>

\* Mutant of SkipMessages: the degraded mode not announced
SkipMessages_Silent == <<>>

\* lines 75-76
SkipMessages == <<"No PSF reference members found in association table",
                  "ami_normalize step will be skipped">>

\* line 188
EndingMessage == "... ending calwebb_ami3"

----------------------------------------------------------------------------

Init ==
    /\ asn \in Associations
    /\ save_averages \in BOOLEAN
    /\ output_file = DefaultOutputFile
    /\ pc = "start"
    /\ i = 0
    /\ psf_files = <<>>
    /\ targ_files = <<>>
    /\ models = <<>>
    /\ result = Unbound
    /\ psf_avg = Unbound
    /\ targ_avg = Unbound
    /\ calls = <<>>
    /\ logs = <<>>
    /\ err = "none"

\* lines 43-52
Load ==
    /\ pc = "start"
    /\ logs' = Append(logs, "Starting calwebb_ami3")
    /\ \/ /\ Len(asn.products) > 0
          /\ pc' = "validate"
          /\ output_file' = IF prod.name # NoName THEN prod.name ELSE output_file
          /\ calls' = Append(calls, Call("load", <<>>, TRUE))
          /\ err' = err
       \/ /\ Len(asn.products) = 0
          /\ pc' = "failed"
          /\ err' = "IndexError"
          /\ calls' = Append(calls, Call("load", <<>>, TRUE))
          /\ output_file' = output_file
       \/ /\ pc' = "failed"
          /\ err' = "AssociationLoadError"
          /\ calls' = Append(calls, Call("load", <<>>, FALSE))
          /\ output_file' = output_file
    /\ UNCHANGED <<asn, save_averages, i, psf_files, targ_files, models, result,
                   psf_avg, targ_avg>>

\* lines 54-80
Validate ==
    /\ pc = "validate"
    /\ IF NoTargets(TargMembers(prod.members))
       THEN /\ logs' = logs \o AbortMessages
            /\ pc' = "aborted"
            /\ UNCHANGED <<i, psf_files, targ_files>>
       ELSE /\ logs' = IF NoPsfs(PsfMembers(prod.members))
                       THEN logs \o SkipMessages
                       ELSE logs
            /\ psf_files' = <<>>
            /\ targ_files' = <<>>
            /\ i' = 1
            /\ pc' = "loop"
    /\ UNCHANGED <<asn, save_averages, output_file, models, result, psf_avg,
                   targ_avg, calls, err>>

\* lines 81-86: the next member, and ami_analyze on it
Analyze ==
    /\ pc = "loop"
    /\ i <= Len(prod.members)
    /\ LET input_file == prod.members[i].expname IN
       /\ logs' = Append(logs, "Do LG processing for member")
       /\ \/ \E m \in StepOutputs("ami_analyze") :
               /\ models' = Append(models, m)
               /\ result' = Len(models) + 1
               /\ Return(Call("ami_analyze", <<input_file>>, TRUE), "save_member")
          \/ /\ Raise(Call("ami_analyze", <<input_file>>, FALSE), "StageError")
             /\ UNCHANGED <<models, result>>
    /\ UNCHANGED <<asn, save_averages, output_file, i, psf_files, targ_files,
                   psf_avg, targ_avg>>

\* lines 88-100: stamp the result, save it, and keep the name of the file
SaveMember ==
    /\ pc = "save_member"
    /\ LET member == prod.members[i]
           input_file == member.expname
           stamped == [models EXCEPT ![result] = Stamp(@)]
           args == SaveArgs(result, stamped, input_file, "ami", asn.asn_id)
           out == OutputPath(input_file, "ami")
       IN  /\ models' = stamped
           /\ \/ /\ Return(Call("save_model", args, TRUE), "loop")
                 /\ logs' = Append(logs, "LG results saved to")
                 /\ psf_files' = IF IsPsf(member) THEN AppendFile(psf_files, out) ELSE psf_files
                 /\ targ_files' = IF IsScience(member) THEN AppendFile(targ_files, out)
                                  ELSE targ_files
                 /\ i' = i + 1
              \/ /\ Raise(Call("save_model", args, FALSE), "PersistError")
                 /\ UNCHANGED <<logs, psf_files, targ_files, i>>
    /\ UNCHANGED <<asn, save_averages, output_file, result, psf_avg, targ_avg>>

\* line 81, when the members are exhausted, and line 103
EndLoop ==
    /\ pc = "loop"
    /\ i > Len(prod.members)
    /\ psf_avg' = None
    /\ pc' = Follows("loop")
    /\ UNCHANGED <<asn, save_averages, output_file, i, psf_files, targ_files,
                   models, result, targ_avg, calls, logs, err>>

\* lines 104-109
AveragePsf ==
    /\ pc = "avg_psf"
    /\ IF HavePsfFiles(psf_files)
       THEN /\ logs' = Append(logs, "Calling ami_average for PSF results ...")
            /\ \/ \E m \in StepOutputs("ami_average") :
                    /\ models' = Append(models, m)
                    /\ psf_avg' = Len(models) + 1
                    /\ Return(Call("ami_average", psf_files, TRUE),
                              IF SavePsfAvg THEN "stamp_psf" ELSE Follows("psf"))
               \/ /\ Raise(Call("ami_average", psf_files, FALSE), "StageError")
                  /\ UNCHANGED <<models, psf_avg>>
       ELSE /\ pc' = Follows("psf")
            /\ UNCHANGED <<models, psf_avg, calls, logs, err>>
    /\ UNCHANGED <<asn, save_averages, output_file, i, psf_files, targ_files,
                   result, targ_avg>>

\* lines 110-128: stamp psf_avg, and the log lines, one of which opens the
\* first PSF file
StampPsf ==
    /\ pc = "stamp_psf"
    /\ LET stamped == [models EXCEPT ![psf_avg] = Stamp(@)] IN
       /\ \/ /\ models' = Append(stamped, [kind |-> "opened", pool_name |-> asn.asn_pool,
                                           table_name |-> asn.filename, blended |-> FALSE,
                                           closed |-> FALSE])
             /\ logs' = logs \o <<"Blending metadata for averaged psf...", "INPUT WCS",
                                  "PSF_AVG type", "PSF_AVG WCS">>
             /\ Return(Call("open", <<psf_files[1]>>, TRUE), "blend_psf")
          \/ /\ models' = stamped
             /\ logs' = Append(logs, "Blending metadata for averaged psf...")
             /\ Raise(Call("open", <<psf_files[1]>>, FALSE), "OpenError")
    /\ UNCHANGED <<asn, save_averages, output_file, i, psf_files, targ_files,
                   result, psf_avg, targ_avg>>

\* Mutant of BlendPsf: the target files given as the inputs of the PSF average
BlendPsf_TargetInputs ==
    /\ pc = "blend_psf"
    /\ LET args == [model |-> psf_avg, inputs |-> targ_files] IN
       \/ /\ models' = [models EXCEPT ![psf_avg].blended = TRUE]
          /\ Return(Call("blendmodels", args, TRUE), "save_psf")
       \/ /\ Raise(Call("blendmodels", args, FALSE), "BlendError")
          /\ UNCHANGED models
    /\ UNCHANGED <<asn, save_averages, output_file, i, psf_files, targ_files,
                   result, psf_avg, targ_avg, logs>>

\* line 129
BlendPsf ==
    /\ pc = "blend_psf"
    /\ LET args == [model |-> psf_avg, inputs |-> psf_files] IN
       \/ /\ models' = [models EXCEPT ![psf_avg].blended = TRUE]
          /\ Return(Call("blendmodels", args, TRUE), "save_psf")
       \/ /\ Raise(Call("blendmodels", args, FALSE), "BlendError")
          /\ UNCHANGED models
    /\ UNCHANGED <<asn, save_averages, output_file, i, psf_files, targ_files,
                   result, psf_avg, targ_avg, logs>>

\* lines 130-136
SavePsf ==
    /\ pc = "save_psf"
    /\ LET args == SaveArgs(psf_avg, models, output_file, "psf-amiavg", None) IN
       \/ /\ Return(Call("save_model", args, TRUE), Follows("psf"))
          /\ logs' = Append(logs, "Averaged PSF results saved to")
       \/ /\ Raise(Call("save_model", args, FALSE), "PersistError")
          /\ UNCHANGED logs
    /\ UNCHANGED <<asn, save_averages, output_file, i, psf_files, targ_files,
                   models, result, psf_avg, targ_avg>>

\* lines 138-144
AverageTarg ==
    /\ pc = "avg_targ"
    /\ IF HaveTargFiles(targ_files)
       THEN /\ logs' = Append(logs, "Calling ami_average for target results ...")
            /\ \/ \E m \in StepOutputs("ami_average") :
                    /\ models' = Append(models, m)
                    /\ targ_avg' = Len(models) + 1
                    /\ Return(Call("ami_average", targ_files, TRUE),
                              IF SaveTargAvg THEN "blend_targ" ELSE Follows("targ"))
               \/ /\ Raise(Call("ami_average", targ_files, FALSE), "StageError")
                  /\ UNCHANGED <<models, targ_avg>>
       ELSE /\ pc' = Follows("targ")
            /\ UNCHANGED <<models, targ_avg, calls, logs, err>>
    /\ UNCHANGED <<asn, save_averages, output_file, i, psf_files, targ_files,
                   result, psf_avg>>

\* lines 145-153: stamp targ_avg and blend
BlendTarg ==
    /\ pc = "blend_targ"
    /\ LET stamped == [models EXCEPT ![targ_avg] = Stamp(@)]
           args == [model |-> targ_avg, inputs |-> targ_files]
       IN  /\ logs' = Append(logs, "Blending metadata for averaged target")
           /\ \/ /\ models' = [stamped EXCEPT ![targ_avg].blended = TRUE]
                 /\ Return(Call("blendmodels", args, TRUE), "save_targ")
              \/ /\ models' = stamped
                 /\ Raise(Call("blendmodels", args, FALSE), "BlendError")
    /\ UNCHANGED <<asn, save_averages, output_file, i, psf_files, targ_files,
                   result, psf_avg, targ_avg>>

\* lines 155-161
SaveTarg ==
    /\ pc = "save_targ"
    /\ LET args == SaveArgs(targ_avg, models, output_file, "amiavg", None) IN
       \/ /\ Return(Call("save_model", args, TRUE), Follows("targ"))
          /\ logs' = Append(logs, "Averaged target results saved to")
       \/ /\ Raise(Call("save_model", args, FALSE), "PersistError")
          /\ UNCHANGED logs
    /\ UNCHANGED <<asn, save_averages, output_file, i, psf_files, targ_files,
                   models, result, psf_avg, targ_avg>>

\* lines 166-168, and lines 187-190 when there is nothing to normalize
Normalize ==
    /\ pc = "normalize"
    /\ IF DoNormalize(psf_avg)
       THEN IF targ_avg = Unbound
            THEN /\ pc' = "failed"
                 /\ err' = "NameError"
                 /\ UNCHANGED <<models, result, calls, logs>>
            ELSE /\ \/ \E m \in StepOutputs("ami_normalize") :
                         /\ models' = Append(models, m)
                         /\ result' = Len(models) + 1
                         /\ Return(Call("ami_normalize", NormalizeArgs(targ_avg, psf_avg), TRUE),
                                   "blend_norm")
                    \/ /\ Raise(Call("ami_normalize", NormalizeArgs(targ_avg, psf_avg), FALSE),
                                "StageError")
                       /\ UNCHANGED <<models, result>>
                 /\ UNCHANGED logs
       ELSE /\ logs' = Append(logs, EndingMessage)
            /\ pc' = "done"
            /\ UNCHANGED <<models, result, calls, err>>
    /\ UNCHANGED <<asn, save_averages, output_file, i, psf_files, targ_files,
                   psf_avg, targ_avg>>

\* lines 170-179: stamp the normalized result and blend
BlendNorm ==
    /\ pc = "blend_norm"
    /\ LET stamped == [models EXCEPT ![result] = Stamp(@)]
           input_list == InputList(targ_avg, psf_avg)
           args == [model |-> result, inputs |-> input_list]
       IN  /\ logs' = Append(logs, "Blending metadata for PSF normalized target...")
           /\ \/ /\ models' = [stamped EXCEPT ![result].blended = TRUE]
                 /\ Return(Call("blendmodels", args, TRUE), "save_norm")
              \/ /\ models' = stamped
                 /\ Raise(Call("blendmodels", args, FALSE), "BlendError")
    /\ UNCHANGED <<asn, save_averages, output_file, i, psf_files, targ_files,
                   result, psf_avg, targ_avg>>

\* lines 180-184
SaveNorm ==
    /\ pc = "save_norm"
    /\ LET args == SaveArgs(result, models, output_file, "aminorm", None) IN
       \/ /\ Return(Call("save_model", args, TRUE), "close_norm")
          /\ logs' = Append(logs, "Normalized result saved to")
       \/ /\ Raise(Call("save_model", args, FALSE), "PersistError")
          /\ UNCHANGED logs
    /\ UNCHANGED <<asn, save_averages, output_file, i, psf_files, targ_files,
                   models, result, psf_avg, targ_avg>>

\* lines 185-190
CloseNorm ==
    /\ pc = "close_norm"
    /\ \/ /\ models' = [models EXCEPT ![result].closed = TRUE]
          /\ logs' = Append(logs, EndingMessage)
          /\ Return(Call("close", <<result>>, TRUE), "done")
       \/ /\ Raise(Call("close", <<result>>, FALSE), "CloseError")
          /\ UNCHANGED <<models, logs>>
    /\ UNCHANGED <<asn, save_averages, output_file, i, psf_files, targ_files,
                   result, psf_avg, targ_avg>>

Next ==
    \/ Load
    \/ Validate
    \/ Analyze
    \/ SaveMember
    \/ EndLoop
    \/ AveragePsf
    \/ StampPsf
    \/ BlendPsf
    \/ SavePsf
    \/ AverageTarg
    \/ BlendTarg
    \/ SaveTarg
    \/ Normalize
    \/ BlendNorm
    \/ SaveNorm
    \/ CloseNorm

Spec == Init /\ [][Next]_vars

----------------------------------------------------------------------------
(* Vocabulary of the properties *)

Terminal == {"done", "aborted", "failed"}

\* Equality of two strings ignoring letter case
LowerOf ==
    [c \in {UpperLetters[k] : k \in 1..Len(UpperLetters)} |->
        LowerLetters[CHOOSE k \in 1..Len(UpperLetters) : UpperLetters[k] = c]]

FoldChar(c) == IF c \in DOMAIN LowerOf THEN LowerOf[c] ELSE c

EqIgnoreCase(a, b) ==
    /\ Len(a) = Len(b)
    /\ \A k \in 1..Len(a) : FoldChar(a[k]) = FoldChar(b[k])

RoleScience(m) == EqIgnoreCase(m.exptype, <<"s", "c", "i", "e", "n", "c", "e">>)
RoleReference(m) == EqIgnoreCase(m.exptype, <<"p", "s", "f">>)
RoleOther(m) == ~RoleScience(m) /\ ~RoleReference(m)

\* The association was loaded and has a first product
Loaded == calls # <<>> /\ calls[1].ok /\ Len(asn.products) > 0

members == prod.members

ScienceCount == Cardinality({k \in 1..Len(members) : RoleScience(members[k])})
ReferenceCount == Cardinality({k \in 1..Len(members) : RoleReference(members[k])})
OtherCount == Cardinality({k \in 1..Len(members) : RoleOther(members[k])})

\* Positions in the trace of the calls of one collaborator
CallsTo(op) == {k \in 1..Len(calls) : calls[k].op = op}

StageOps == {"ami_analyze", "ami_average", "ami_normalize", "blendmodels", "save_model"}

StageCalls == {k \in 1..Len(calls) : calls[k].op \in StageOps}

NoFailure == \A k \in 1..Len(calls) : calls[k].ok

\* A run stops only in a terminal state, and fails only by an exception
RunsOn ==
    /\ pc \notin Terminal => ENABLED Next
    /\ pc = "failed" /\ Loaded => ~calls[Len(calls)].ok

\* The artifacts of the members of one role, in member order
ArtifactsOf(Role(_)) ==
    LET sel == SelectSeq(members, Role)
    IN  [k \in 1..Len(sel) |-> OutputPath(sel[k].expname, "ami")]

\* The aggregates, as references to the models ami_average returned
IsAggregate(ref) == ref \in 1..Len(models) /\ models[ref].kind = "ami_average"

----------------------------------------------------------------------------
(* C1: when the first product has no SCIENCE-role member (whatever its other
   members, none included), the run ends in the Aborted state by a clean,
   logged return, and no stage is ever invoked: no ami_analyze, ami_average,
   ami_normalize, blendmodels or save_model call. *)
C1_NoScienceAborts ==
    Loaded /\ ScienceCount = 0 =>
        /\ pc \in {"validate", "aborted"}
        /\ StageCalls = {}
        /\ RunsOn
        /\ pc = "aborted" =>
              /\ err = "none"
              /\ logs[Len(logs)] = "Calwebb_ami3 processing will be aborted"

C1_Witness ==
    /\ pc = "aborted"
    /\ ReferenceCount > 0
    /\ OtherCount > 0

(* C2: with at least one SCIENCE member, no reference member and no stage
   failure the run reaches Done; ami_normalize is never invoked, ami_average
   is invoked exactly once, on the science artifacts, so the science
   aggregate is produced, and no reference aggregate is produced. *)
C2_DegradedRun ==
    Loaded /\ ScienceCount > 0 /\ ReferenceCount = 0 =>
        /\ pc # "aborted"
        /\ RunsOn
        /\ CallsTo("ami_normalize") = {}
        /\ \A k \in CallsTo("ami_average") : calls[k].args = ArtifactsOf(RoleScience)
        /\ Cardinality(CallsTo("ami_average")) <= 1
        /\ ~IsAggregate(psf_avg)
        /\ pc = "done" =>
              /\ NoFailure
              /\ Cardinality(CallsTo("ami_average")) = 1
              /\ IsAggregate(targ_avg)
              /\ psf_avg = None

C2_Witness ==
    /\ pc = "done"
    /\ ScienceCount > 0
    /\ ReferenceCount = 0
    /\ OtherCount > 0
    /\ IsAggregate(targ_avg)

(* C3: with at least one member of each role and no stage failure the run
   invokes ami_analyze exactly once per member of the first product (on the
   members' exposure references, other roles included), ami_average exactly
   twice (once per role) and ami_normalize exactly once; every ami_analyze
   call precedes every ami_average call and both ami_average calls precede
   the ami_normalize call. *)
C3_FullRun ==
    Loaded /\ ScienceCount > 0 /\ ReferenceCount > 0 =>
        /\ pc # "aborted"
        /\ RunsOn
        /\ \A a \in CallsTo("ami_analyze"), b \in CallsTo("ami_average") : a < b
        /\ \A b \in CallsTo("ami_average"), c \in CallsTo("ami_normalize") : b < c
        /\ pc = "done" =>
              /\ NoFailure
              /\ LET an == SelectSeq(calls, LAMBDA c : c.op = "ami_analyze")
                     av == SelectSeq(calls, LAMBDA c : c.op = "ami_average")
                 IN  /\ Len(an) = Len(members)
                     /\ \A k \in 1..Len(an) : an[k].args = <<members[k].expname>>
                     /\ Len(av) = 2
                     /\ {av[1].args, av[2].args} =
                            {ArtifactsOf(RoleScience), ArtifactsOf(RoleReference)}
                     /\ \E k \in 1..2 : av[k].args = ArtifactsOf(RoleScience)
              /\ Cardinality(CallsTo("ami_normalize")) = 1

C3_Witness ==
    /\ pc = "done"
    /\ ScienceCount > 0
    /\ ReferenceCount > 0
    /\ OtherCount > 0
    /\ Cardinality(CallsTo("ami_normalize")) = 1

(* C4: when the Analyze phase has ended, targ_files is exactly the sequence of
   the artifacts of the SCIENCE-role members in the order of the first
   product's member list and psf_files the same for the reference members;
   ami_average receives each list in that order. *)
AnalyzeEnded ==
    pc \in {"avg_psf", "stamp_psf", "blend_psf", "save_psf", "avg_targ", "blend_targ",
            "save_targ", "normalize", "blend_norm", "save_norm", "close_norm", "done"}

C4_OrderPreserved ==
    /\ AnalyzeEnded =>
          /\ targ_files = ArtifactsOf(RoleScience)
          /\ psf_files = ArtifactsOf(RoleReference)
    /\ LET av == SelectSeq(calls, LAMBDA c : c.op = "ami_average")
       IN  /\ Len(av) >= 1 =>
                 av[1].args = IF ReferenceCount > 0 THEN ArtifactsOf(RoleReference)
                              ELSE ArtifactsOf(RoleScience)
           /\ Len(av) >= 2 => av[2].args = ArtifactsOf(RoleScience)

C4_Witness ==
    /\ pc = "normalize"
    /\ Len(members) = 3
    /\ RoleScience(members[1]) /\ RoleReference(members[2]) /\ RoleScience(members[3])
    /\ members[1].expname # members[3].expname
    /\ targ_files = <<OutputPath(members[1].expname, "ami"),
                      OutputPath(members[3].expname, "ami")>>
    /\ Cardinality(CallsTo("ami_average")) = 2

----------------------------------------------------------------------------

Range(q) == {q[k] : k \in 1..Len(q)}

\* The artifact of member j: the file its analysis result is saved to
Artifact(j) == OutputPath(members[j].expname, "ami")

\* Positions in the trace of the save_model calls with one suffix
SavesWith(suffix) == {k \in CallsTo("save_model") : calls[k].args.suffix = suffix}

\* Positions in the trace of the blendmodels calls made for an aggregate
AggregateBlends == {k \in CallsTo("blendmodels") : IsAggregate(calls[k].args.model)}

NormInvoked == CallsTo("ami_normalize") # {}

RefAggregateProduced == IsAggregate(psf_avg)

StepKinds == {"ami_analyze", "ami_average", "ami_normalize"}

HasProvenance(m) == m.pool_name = asn.asn_pool /\ m.table_name = asn.filename

(* C5: role partitioning.  Each artifact in targ_files comes from a member
   whose role is SCIENCE ignoring letter case, each artifact in psf_files from
   a member whose role is the reference role ignoring letter case, no artifact
   is in both lists, and a member of another role is analysed and saved while
   its artifact is in neither list and is passed to no ami_average and no
   blendmodels call; an unrecognized role is never an error. *)
C5_RolePartition ==
    Loaded =>
        /\ \A a \in Range(targ_files) :
              \E j \in 1..Len(members) : Artifact(j) = a /\ RoleScience(members[j])
        /\ \A a \in Range(psf_files) :
              \E j \in 1..Len(members) : Artifact(j) = a /\ RoleReference(members[j])
        /\ Range(targ_files) \cap Range(psf_files) = {}
        /\ \A j \in 1..Len(members) :
              RoleOther(members[j]) =>
                 /\ Artifact(j) \notin Range(targ_files) \cup Range(psf_files)
                 /\ \A k \in CallsTo("ami_average") : Artifact(j) \notin Range(calls[k].args)
                 /\ \A k \in AggregateBlends : Artifact(j) \notin Range(calls[k].args.inputs)
                 /\ AnalyzeEnded =>
                       \E k \in CallsTo("ami_analyze") :
                          /\ calls[k].args = <<members[j].expname>>
                          /\ calls[k + 1].op = "save_model"
                          /\ calls[k + 1].ok
        /\ RunsOn

\* The members of the first product have pairwise different exposure references
DistinctExpnames ==
    \A j, k \in 1..Len(members) : j # k => members[j].expname # members[k].expname

\* C5 holds of the runs in which no two members share an exposure reference
C5_HoldsForDistinctExpnames == Loaded /\ DistinctExpnames => C5_RolePartition

(* C6: ami_normalize is invoked if and only if a reference aggregate was
   produced by the averaging of the PSF files (in a run that did not fail
   before the normalization), whatever the value of save_averages, and it
   receives the two aggregates held in memory. *)
C6_NormalizeIffReference ==
    /\ NormInvoked => RefAggregateProduced
    /\ RefAggregateProduced => ReferenceCount > 0
    /\ pc \in {"blend_norm", "save_norm", "close_norm", "done"} =>
          (NormInvoked <=> RefAggregateProduced)
    /\ \A k \in CallsTo("ami_normalize") :
          /\ calls[k].args = <<targ_avg, psf_avg>>
          /\ IsAggregate(targ_avg)
          /\ IsAggregate(psf_avg)
          /\ targ_avg # psf_avg

C6_Witness ==
    /\ pc = "done"
    /\ ~save_averages
    /\ NormInvoked
    /\ SavesWith("psf-amiavg") = {}

(* C7: a failure of an external call is fatal to the run: no call follows
   the failed call (no retry, no further call), the run reaches neither Done
   nor Aborted, and the exception leaves process(); so after a failure while
   analysing or saving one member no later member is analysed and nothing is
   averaged. *)
C7_FailureIsFatal ==
    /\ \A k \in 1..(Len(calls) - 1) : calls[k].ok
    /\ calls # <<>> /\ ~calls[Len(calls)].ok =>
          /\ pc = "failed"
          /\ err # "none"
          /\ ~ENABLED Next
    /\ pc \in {"done", "aborted"} => NoFailure /\ err = "none"
    /\ \A k \in CallsTo("ami_analyze") \cup SavesWith("ami") :
          ~calls[k].ok =>
             /\ CallsTo("ami_average") = {}
             /\ Cardinality(CallsTo("ami_analyze")) = i

C7_Witness ==
    /\ pc = "failed"
    /\ err = "PersistError"
    /\ calls[Len(calls)].args.suffix = "ami"
    /\ i = 1
    /\ Len(members) = 3

(* C8: at every save_model call of a run (analysis result of a member, PSF
   average, target average, normalized result) the model being saved already
   has its pool and table names equal to those of the association. *)
C8_StampedBeforeSave ==
    \A k \in CallsTo("save_model") :
        /\ calls[k].args.pool_name = asn.asn_pool
        /\ calls[k].args.table_name = asn.filename

C8_Witness ==
    /\ pc = "done"
    /\ SavesWith("ami") # {}
    /\ SavesWith("psf-amiavg") # {}
    /\ SavesWith("amiavg") # {}
    /\ SavesWith("aminorm") # {}

(* C9, as claimed: when a run reaches Done every result a step produced
   (analysis results, the aggregates, the normalized result) carries the pool
   and table names of the association, for both values of save_averages. *)
C9_EveryResultStamped ==
    pc = "done" =>
        \A k \in 1..Len(models) : models[k].kind \in StepKinds => HasProvenance(models[k])

(* C9, amended: when a run reaches Done every analysis result and the
   normalized result carries the pool and table names of the association, and
   so does each aggregate when save_averages is true; when it is false the
   aggregates are not stamped and keep what ami_average gave them. *)
C9_SavedResultsStamped ==
    pc = "done" =>
        \A k \in 1..Len(models) :
            \/ models[k].kind \in {"ami_analyze", "ami_normalize"}
            \/ models[k].kind = "ami_average" /\ save_averages
            => HasProvenance(models[k])

C9_Witness ==
    /\ pc = "done"
    /\ save_averages
    /\ NormInvoked
    /\ \A k \in 1..Len(models) : HasProvenance(models[k])

(* C10: save_averages alone controls the saving of the aggregates.  When it
   is false save_model is never called for an aggregate, so a completed run
   saves one artifact per member plus the normalized result when the
   normalization ran; when it is true each aggregate produced is saved exactly
   once under its own suffix, the target average whether or not a PSF average
   was produced or saved. *)
C10_FlagControlsAggregateSaves ==
    /\ ~save_averages => SavesWith("psf-amiavg") = {} /\ SavesWith("amiavg") = {}
    /\ Cardinality(SavesWith("psf-amiavg")) <= 1
    /\ Cardinality(SavesWith("amiavg")) <= 1
    /\ \A k \in SavesWith("psf-amiavg") : calls[k].args.model = psf_avg
    /\ \A k \in SavesWith("amiavg") : calls[k].args.model = targ_avg
    /\ pc = "done" =>
          /\ Cardinality(SavesWith("ami")) = Len(members)
          /\ Cardinality(SavesWith("aminorm")) = IF NormInvoked THEN 1 ELSE 0
          /\ Cardinality(CallsTo("save_model")) =
                Len(members) + (IF NormInvoked THEN 1 ELSE 0)
                + (IF save_averages /\ IsAggregate(psf_avg) THEN 1 ELSE 0)
                + (IF save_averages /\ IsAggregate(targ_avg) THEN 1 ELSE 0)
          /\ save_averages =>
                /\ IsAggregate(psf_avg) <=> SavesWith("psf-amiavg") # {}
                /\ IsAggregate(targ_avg)
                /\ SavesWith("amiavg") # {}

C10_Witness ==
    /\ pc = "done"
    /\ save_averages
    /\ psf_avg = None
    /\ SavesWith("psf-amiavg") = {}
    /\ Cardinality(SavesWith("amiavg")) = 1

----------------------------------------------------------------------------

\* The run with every step taken as soon as it can be: process() is a
\* sequential program that never waits
FairSpec == Spec /\ WF_vars(Next)

\* Every run reaches an outcome
Terminates == <>(pc \in Terminal)

HasProducts == Len(asn.products) > 0

MemberCount == IF HasProducts THEN Len(members) ELSE 0

\* The number of calls a run makes is bounded by the member count: the load,
\* two calls per member, at most two averages and one normalization, and the
\* blending, opening, saving and closing that go with them
CallsBounded ==
    /\ Cardinality(CallsTo("ami_analyze")) <= MemberCount
    /\ Cardinality(CallsTo("ami_average")) <= 2
    /\ Cardinality(CallsTo("ami_normalize")) <= 1
    /\ Len(calls) <= 2 * MemberCount + 12

\* A run stops in a terminal state and nowhere else
StopsOnlyAtOutcome ==
    /\ pc \notin Terminal => ENABLED Next
    /\ pc \in Terminal => ~ENABLED Next

(* C11: every run ends in exactly one of three outcomes: normal completion
   (Done), the soft abort for want of science members, or a fatal error
   propagated from an external call; and the number of stage calls is bounded
   by the member count (one analysis per member, at most two aggregations, at
   most one normalization). *)
C11_ThreeOutcomes ==
    /\ StopsOnlyAtOutcome
    /\ CallsBounded
    /\ pc = "done" => err = "none" /\ NoFailure /\ logs[Len(logs)] = EndingMessage
    /\ pc = "aborted" => err = "none" /\ NoFailure /\ ScienceCount = 0
    /\ pc = "failed" => calls # <<>> /\ ~calls[Len(calls)].ok

\* The part of C11 that holds of every run: it stops only at an outcome, its
\* calls are bounded, and it fails only by an exception of an external call
\* or by the IndexError of an association without products
C11_TerminatesBounded ==
    /\ StopsOnlyAtOutcome
    /\ CallsBounded
    /\ pc = "failed" =>
          \/ calls # <<>> /\ ~calls[Len(calls)].ok
          \/ err = "IndexError" /\ ~HasProducts

(* C13: an association with zero products makes the run end with a validation
   error that is reported and not fatal to the host: the run is aborted before
   any stage is invoked and its outcome is the validation error, not an
   unclassified crash. *)
C13_ZeroProductsValidationError ==
    calls # <<>> /\ calls[1].ok /\ ~HasProducts =>
        /\ StageCalls = {}
        /\ pc = "aborted" \/ err = "ValidationError"

\* What the code does with zero products: IndexError leaves process() at
\* line 51, before any stage call
C13_ZeroProductsIndexError ==
    calls # <<>> /\ calls[1].ok /\ ~HasProducts =>
        /\ StageCalls = {}
        /\ pc = "failed"
        /\ err = "IndexError"
        /\ logs = <<"Starting calwebb_ami3">>

----------------------------------------------------------------------------

\* The calls that return a new data model
CreatingOps == {"ami_analyze", "ami_average", "open", "ami_normalize"}

\* The reference of the model the call at position k returned
RefCreatedBy(k) ==
    Cardinality({j \in 1..k : calls[j].ok /\ calls[j].op \in CreatingOps})

IsCall(k, op, args, ok) ==
    /\ k \in 1..Len(calls)
    /\ calls[k].op = op
    /\ calls[k].ok = ok
    /\ calls[k].args = args

(* C14: whenever an aggregate is saved, the steps for it came in the order:
   ami_average returns it, it is stamped, blendmodels is invoked on it,
   save_model saves it; the inputs of the blending are exactly the list of
   that role (psf_files for the PSF average, targ_files for the target
   average) in accumulated order; and the suffix of the save is not the one
   of the members. *)
C14_AggregateSaveOrder ==
    /\ \A k \in SavesWith("psf-amiavg") :
          /\ IsCall(k - 3, "ami_average", psf_files, TRUE)
          /\ RefCreatedBy(k - 3) = psf_avg
          /\ calls[k - 2].op = "open"
          /\ IsCall(k - 1, "blendmodels", [model |-> psf_avg, inputs |-> psf_files], TRUE)
          /\ calls[k].args.model = psf_avg
          /\ psf_files = ArtifactsOf(RoleReference)
    /\ \A k \in SavesWith("amiavg") :
          /\ IsCall(k - 2, "ami_average", targ_files, TRUE)
          /\ RefCreatedBy(k - 2) = targ_avg
          /\ IsCall(k - 1, "blendmodels", [model |-> targ_avg, inputs |-> targ_files], TRUE)
          /\ calls[k].args.model = targ_avg
          /\ targ_files = ArtifactsOf(RoleScience)
    /\ \A k \in AggregateBlends :
          /\ HasProvenance(models[calls[k].args.model])
          /\ calls[k].args.model = psf_avg => calls[k].args.inputs = psf_files
          /\ calls[k].args.model = targ_avg => calls[k].args.inputs = targ_files
          /\ calls[k].args.model \in {psf_avg, targ_avg}
    /\ \A k \in CallsTo("save_model") :
          IsAggregate(calls[k].args.model) =>
             /\ calls[k].args.suffix \in {"psf-amiavg", "amiavg"}
             /\ calls[k].args.suffix # "ami"
             /\ calls[k].args.pool_name = asn.asn_pool
             /\ calls[k].args.table_name = asn.filename

C14_Witness ==
    /\ pc = "done"
    /\ SavesWith("psf-amiavg") # {}
    /\ SavesWith("amiavg") # {}
    /\ Len(targ_files) = 2
    /\ targ_files[1] # targ_files[2]
    /\ psf_files # targ_files

(* C15: ami_normalize is called with (target average, PSF average) in that
   order; then the normalized result is stamped, blendmodels is invoked on it
   with exactly the two-element list [target average, PSF average], it is
   saved once with the suffix 'aminorm', and it is closed, exactly once and
   never before the save. *)
C15_NormalizePhase ==
    /\ \A k \in CallsTo("ami_normalize") :
          /\ calls[k].args = <<targ_avg, psf_avg>>
          /\ \E a \in CallsTo("ami_average") :
                /\ RefCreatedBy(a) = targ_avg
                /\ calls[a].ok
                /\ calls[a].args = ArtifactsOf(RoleScience)
          /\ \E b \in CallsTo("ami_average") :
                /\ RefCreatedBy(b) = psf_avg
                /\ calls[b].ok
                /\ calls[b].args = ArtifactsOf(RoleReference)
          /\ targ_avg # psf_avg
          /\ Len(calls) <= k + 3
          /\ Len(calls) > k =>
                /\ calls[k].ok
                /\ result = RefCreatedBy(k)
                /\ HasProvenance(models[result])
                /\ calls[k + 1].op = "blendmodels"
                /\ calls[k + 1].args = [model |-> result, inputs |-> <<targ_avg, psf_avg>>]
          /\ Len(calls) > k + 1 =>
                /\ calls[k + 1].ok
                /\ calls[k + 2].op = "save_model"
                /\ calls[k + 2].args.model = result
                /\ calls[k + 2].args.suffix = "aminorm"
                /\ calls[k + 2].args.suffix \notin {"ami", "psf-amiavg", "amiavg"}
          /\ Len(calls) > k + 2 =>
                /\ calls[k + 2].ok
                /\ IsCall(k + 3, "close", <<result>>, calls[k + 3].ok)
    /\ CallsTo("close") # {} => NormInvoked
    /\ Cardinality(CallsTo("close")) <= 1
    /\ Cardinality(SavesWith("aminorm")) <= 1
    /\ \A m \in 1..Len(models) :
          models[m].closed => m = result /\ \E c \in CallsTo("close") : calls[c].ok
    /\ pc = "done" /\ NormInvoked =>
          /\ models[result].closed
          /\ models[result].kind = "ami_normalize"
          /\ Cardinality(SavesWith("aminorm")) = 1

C15_Witness ==
    /\ pc = "done"
    /\ NormInvoked
    /\ models[result].closed
    /\ save_averages

----------------------------------------------------------------------------

\* The ami_average call that returned the target average, and the one that
\* returned the PSF average
TargAvgCalls == {k \in CallsTo("ami_average") : calls[k].ok /\ RefCreatedBy(k) = targ_avg}
PsfAvgCalls == {k \in CallsTo("ami_average") : calls[k].ok /\ RefCreatedBy(k) = psf_avg}

(* C16, as claimed: in every run in which both aggregations happen, the
   ami_average call on the science artifacts, and the saving of the science
   aggregate if any, comes before the ami_average call on the reference
   artifacts. *)
C16_ScienceBeforeReference ==
    \A a \in TargAvgCalls, b \in PsfAvgCalls :
        /\ a < b
        /\ \A sv \in SavesWith("amiavg") : sv < b

(* C16, amended: the phases of a non-aborted run are Load, Validate, Analyze,
   optional AggregateReference, AggregateScience, optional Normalize, Done: in
   every run in which both aggregations happen, the ami_average call on the
   reference artifacts, and the saving of the reference aggregate if any,
   comes before the ami_average call on the science artifacts; every
   ami_analyze call comes before both and the ami_normalize call after
   both. *)
C16_ReferenceBeforeScience ==
    /\ \A a \in TargAvgCalls, b \in PsfAvgCalls :
          /\ b < a
          /\ \A sv \in SavesWith("psf-amiavg") : sv < a
          /\ \A sv \in SavesWith("amiavg") : a < sv
    /\ \A a \in CallsTo("ami_average") :
          /\ \A an \in CallsTo("ami_analyze") : an < a
          /\ \A n \in CallsTo("ami_normalize") : a < n
    /\ NormInvoked => TargAvgCalls # {} /\ PsfAvgCalls # {}

C16_Witness ==
    /\ pc = "done"
    /\ save_averages
    /\ TargAvgCalls # {}
    /\ PsfAvgCalls # {}
    /\ SavesWith("psf-amiavg") # {}

(* C17: the names under which a run saves do not collide: each member's
   artifact is saved under the member's exposure reference and the suffix
   'ami', the four suffixes are pairwise different, and no two save_model
   calls of a run use the same (base name, suffix) pair, whatever the member
   list. *)
C17_NoNameCollision ==
    Loaded =>
        /\ \A j, k \in CallsTo("save_model") :
              j # k => <<calls[j].args.base, calls[j].args.suffix>>
                       # <<calls[k].args.base, calls[k].args.suffix>>
        /\ \A k \in SavesWith("ami") :
              \E j \in 1..Len(members) : calls[k].args.base = members[j].expname
        /\ \A k \in CallsTo("save_model") :
              calls[k].args.suffix \in {"ami", "psf-amiavg", "amiavg", "aminorm"}
        /\ Cardinality({"ami", "psf-amiavg", "amiavg", "aminorm"}) = 4

\* C17 holds of the runs in which no two members share an exposure reference,
\* also when an exposure reference equals the product's name
C17_HoldsForDistinctExpnames == Loaded /\ DistinctExpnames => C17_NoNameCollision

Logged(msg) == \E k \in 1..Len(logs) : logs[k] = msg

LogPositions(msg) == {k \in 1..Len(logs) : logs[k] = msg}

AbortLogged ==
    \/ Logged("No science target members found in association table")
    \/ Logged("Calwebb_ami3 processing will be aborted")

SkipLogged ==
    /\ Logged("No PSF reference members found in association table")
    /\ Logged("ami_normalize step will be skipped")

CompletionLogged == Logged("... ending calwebb_ami3")

(* C18: the log of a run identifies its outcome.  The completion message is
   logged if and only if the run reaches Done; a soft abort logs the two
   no-science-members errors and never the completion message; a run without
   reference members logs that the normalization will be skipped before any
   ami_analyze call and, when it completes, the completion message after it; a
   run ended by a failure logs neither the abort messages nor the completion
   message. *)
C18_LogsIdentifyOutcome ==
    /\ CompletionLogged <=> pc = "done"
    /\ pc = "aborted" =>
          /\ Logged("No science target members found in association table")
          /\ Logged("Calwebb_ami3 processing will be aborted")
    /\ AbortLogged => pc = "aborted"
    /\ pc = "failed" => ~AbortLogged /\ ~CompletionLogged
    /\ Loaded /\ ScienceCount > 0 /\ ReferenceCount = 0 =>
          /\ pc # "validate" => SkipLogged
          /\ pc = "loop" /\ i = 1 => CallsTo("ami_analyze") = {}
          /\ pc = "done" =>
                \A a \in LogPositions("ami_normalize step will be skipped"),
                   b \in LogPositions("... ending calwebb_ami3") : a < b
    /\ Loaded /\ ~(ScienceCount > 0 /\ ReferenceCount = 0) =>
          ~Logged("ami_normalize step will be skipped")

C18_Witness ==
    /\ pc = "done"
    /\ ReferenceCount = 0
    /\ SkipLogged
    /\ CompletionLogged
    /\ Cardinality(CallsTo("ami_analyze")) = 2

(* C19: the validation before the loop and the gating after it agree.  After
   an Analyze phase without failure the length of targ_files is the number of
   science members counted before the loop and the length of psf_files the
   number of PSF members counted there; so the announcement that the
   normalization will be skipped is made if and only if it is skipped, and
   the PSF files are averaged if and only if that count is positive. *)
C19_ValidationAgreesWithLoop ==
    Loaded =>
        /\ AnalyzeEnded =>
              /\ Len(targ_files) = Len(TargMembers(members))
              /\ Len(psf_files) = Len(PsfMembers(members))
              /\ Len(targ_files) = ScienceCount
              /\ Len(psf_files) = ReferenceCount
        /\ NormInvoked => ~Logged("ami_normalize step will be skipped")
        /\ RefAggregateProduced => ReferenceCount > 0
        /\ pc = "done" =>
              /\ Logged("ami_normalize step will be skipped") <=> ~NormInvoked
              /\ RefAggregateProduced <=> ReferenceCount > 0

C19_Witness ==
    /\ pc = "done"
    /\ ReferenceCount = 1
    /\ OtherCount > 0
    /\ NormInvoked
    /\ Len(psf_files) = 1

(* C20: ami_normalize is never invoked with an undefined target average.
   Whenever the normalization is entered with a PSF average present,
   ami_average has already returned the target average in the same run,
   because targ_files is never empty in a run that passed the check for
   science members and completed the loop. *)
C20_TargetAverageDefined ==
    /\ err # "NameError"
    /\ Loaded /\ AnalyzeEnded => Len(targ_files) > 0
    /\ pc = "normalize" => IsAggregate(targ_avg) /\ TargAvgCalls # {}
    /\ \A n \in CallsTo("ami_normalize") :
          /\ calls[n].args[1] = targ_avg
          /\ IsAggregate(targ_avg)
          /\ \E a \in TargAvgCalls : a < n

C20_Witness ==
    /\ pc = "blend_norm"
    /\ IsAggregate(targ_avg)
    /\ IsAggregate(psf_avg)
    /\ ~save_averages

====
